---- MODULE Spec2Model ----
(***************************************************************************)
(* Model of squirrel_cam_vid.py: the control loop of main(), which polls   *)
(* a camera in its detection configuration, and on a detection of a target *)
(* object switches the camera to the video configuration, records a clip   *)
(* of fixed length and switches back.                                      *)
(*                                                                         *)
(* Time is counted in ticks of half a second (the settle delay of          *)
(* time.sleep(0.5) is one tick).  Confidences are counted in percent       *)
(* (CONFIDENCE_THRESHOLD = 0.5 is 50).  A sleep lasts exactly the          *)
(* duration asked for.                                                     *)
(***************************************************************************)
EXTENDS Integers, Sequences, FiniteSets, TLC

(* ------------------------------ configuration (lines 13-18) ----------- *)
TARGET_OBJECTS == {"cat", "bear", "person", "dog", "bird", "squirrel", "rabbit"}
CONFIDENCE_THRESHOLD == 50
DETECTION_INTERVAL_SECONDS == 5
VIDEO_DURATION_SECONDS == 60
COOLDOWN_SECONDS == 30

\* seconds to ticks
Ticks(s) == 2 * s

\* time.sleep(0.5) of line 76, in ticks
SettleDelay == 1
\* time.sleep(1) of line 57, in seconds
CooldownPollSeconds == 1

(* ------------------------------ bounds -------------------------------- *)
\* the clock stops advancing here
MaxTime == 200
\* longest detection list the detector is given
MaxDetections == 2
\* a capture + inference shorter than the detection interval, in ticks
LatencyShort == 3
\* a capture + inference longer than the detection interval, in ticks
LatencyLong == 12

\* durations of capture + inference, in ticks: none, below the interval, exactly
\* the interval, above it
Latencies == {0, LatencyShort, Ticks(DETECTION_INTERVAL_SECONDS), LatencyLong}
\* values of time.time() when main() starts: below COOLDOWN_SECONDS, exactly
\* COOLDOWN_SECONDS, and later
InitialClocks == {0, Ticks(COOLDOWN_SECONDS), Ticks(COOLDOWN_SECONDS) + 1}

Labels == {"squirrel", "car"}
Confidences == {40, 50, 90}
Detection == [label : Labels, conf : Confidences]

RECURSIVE SeqsUpTo(_, _)
SeqsUpTo(S, n) ==
    IF n = 0 THEN {<<>>}
    ELSE LET shorter == SeqsUpTo(S, n - 1)
         IN  shorter \cup {Append(s, x) : s \in {t \in shorter : Len(t) = n - 1}, x \in S}

RawDetections == SeqsUpTo(Detection, MaxDetections)

VARIABLES
    pc,                     \* position in main()
    now,                    \* time.time()
    current_time,           \* line 54
    last_detection_time,    \* lines 45, 102
    results,                \* the detections of results[0].boxes, line 65
    triggered,              \* the branch taken at line 69 in this iteration
    time_to_next_detection, \* line 105
    camConfig,              \* configuration the camera holds
    camStarted,             \* picam2.start() .. picam2.stop()
    recording,              \* start_recording() .. stop_recording()
    exc,                    \* exception in flight or raised out of main()
    \* history
    lastStopReturnedAt,     \* clock when stop_recording last returned, -1 if never
    nStarted,               \* start_recording calls that returned
    iterSwitches,           \* switch_mode calls in the current iteration
    iterStarts,             \* start_recording calls in the current iteration
    lastAtIterStart,        \* last_detection_time at line 54
    paceP,                  \* time.time() - current_time at line 105, -1 if not reached
    paceSlept,              \* length of the sleep of line 107, 0 if skipped, -1 if not reached
    failedOp,               \* the call that raised
    interruptedAt,          \* position at which KeyboardInterrupt arrived
    iterOps,                \* camera calls and sleeps of the current iteration, in order
    lastPollAt,             \* clock at the latest capture_array call, -1 if none
    artifacts               \* the timestamps of the video files started, in order

vars == <<pc, now, current_time, last_detection_time, results, triggered,
          time_to_next_detection, camConfig, camStarted, recording, exc,
          lastStopReturnedAt, nStarted, iterSwitches, iterStarts, lastAtIterStart,
          paceP, paceSlept, failedOp, interruptedAt, iterOps, lastPollAt, artifacts>>

prog == <<current_time, last_detection_time, results, triggered, time_to_next_detection>>
cam  == <<camConfig, camStarted, recording>>
hist == <<lastStopReturnedAt, nStarted, iterSwitches, iterStarts, lastAtIterStart,
          paceP, paceSlept>>
exit == <<exc, failedOp, interruptedAt>>
hist2 == <<iterOps, lastPollAt, artifacts>>

\* positions inside the try block, lines 53-107
TryPcs == {"loop", "gate", "cooldown_sleep", "capture", "if_trigger", "switch_video",
           "settle", "start_rec", "rec_sleep", "stop_rec", "switch_back", "set_last",
           "pace", "pace_if"}

(* ------------------------------ pure parts ---------------------------- *)

\* model.predict(frame, conf=c): the detector returns the detections above the
\* confidence c; whether it returns one of confidence exactly c is its choice
Predict(raw, c, keepEqual) ==
    SelectSeq(raw, LAMBDA d : d.conf > c \/ (keepEqual /\ d.conf = c))

\* the confidence handed to the detector, line 65
PredictConf == CONFIDENCE_THRESHOLD

\* line 67
DetectedObjects(res) == [i \in 1..Len(res) |-> res[i].label]

\* line 69: any(obj in TARGET_OBJECTS for obj in detected_objects)
TriggerAll(detected_objects) ==
    \A i \in 1..Len(detected_objects) : detected_objects[i] \in TARGET_OBJECTS
Trigger(detected_objects) ==
    \E i \in 1..Len(detected_objects) : detected_objects[i] \in TARGET_OBJECTS

\* line 56: the loop waits while this holds
InCooldownSwapped(t, last) == (last - t) < Ticks(COOLDOWN_SECONDS)
InCooldown(t, last) == (t - last) < Ticks(COOLDOWN_SECONDS)

\* two decimal digits, zero padded, as %H, %M and %S write them
TwoDigits(n) == <<(n \div 10) % 10, n % 10>>

\* line 79: datetime.now().strftime("%Y-%m-%d_%H-%M-%S") at clock t (in ticks):
\* the day number, then hour, minute and second of the day as fixed-width
\* digit fields; fractions of a second are dropped
TimestampDateOnly(t) ==
    LET secs == t \div Ticks(1)
    IN  <<secs \div 86400>>
Timestamp(t) ==
    LET secs == t \div Ticks(1)
        day  == secs \div 86400
        sod  == secs % 86400
    IN  <<day>> \o TwoDigits(sod \div 3600) \o TwoDigits((sod % 3600) \div 60)
              \o TwoDigits(sod % 60)

\* line 105
TimeToNextDetectionNoDrift(t, start) == Ticks(DETECTION_INTERVAL_SECONDS)
TimeToNextDetectionSwapped(t, start) == (t - start) - Ticks(DETECTION_INTERVAL_SECONDS)
TimeToNextDetection(t, start) == Ticks(DETECTION_INTERVAL_SECONDS) - (t - start)

(* ------------------------------ Init (lines 45-49) -------------------- *)
Init ==
    /\ pc = "loop"
    /\ now \in InitialClocks
    /\ current_time = 0
    /\ last_detection_time = 0
    /\ results = <<>>
    /\ triggered = FALSE
    /\ time_to_next_detection = 0
    /\ camConfig = "detection"
    /\ camStarted = TRUE
    /\ recording = FALSE
    /\ exc = "none"
    /\ lastStopReturnedAt = -1
    /\ nStarted = 0
    /\ iterSwitches = 0
    /\ iterStarts = 0
    /\ lastAtIterStart = 0
    /\ paceP = -1
    /\ paceSlept = -1
    /\ failedOp = "none"
    /\ interruptedAt = "none"
    /\ iterOps = <<>>
    /\ lastPollAt = -1
    /\ artifacts = <<>>

(* ------------------------------ the loop ------------------------------ *)

\* line 54
LoopTop ==
    /\ pc = "loop"
    /\ current_time' = now
    /\ triggered' = FALSE
    /\ iterSwitches' = 0
    /\ iterStarts' = 0
    /\ lastAtIterStart' = last_detection_time
    /\ paceP' = -1
    /\ paceSlept' = -1
    /\ pc' = "gate"
    /\ UNCHANGED <<now, last_detection_time, results, time_to_next_detection, cam, exit,
                   lastStopReturnedAt, nStarted>>
    /\ iterOps' = <<>>
    /\ UNCHANGED <<lastPollAt, artifacts>>

\* line 56, taken
GateClosed ==
    /\ pc = "gate"
    /\ InCooldown(current_time, last_detection_time)
    /\ pc' = "cooldown_sleep"
    /\ UNCHANGED <<now, prog, cam, hist, exit>>
    /\ UNCHANGED hist2

\* line 56, not taken
GateOpen ==
    /\ pc = "gate"
    /\ ~InCooldown(current_time, last_detection_time)
    /\ pc' = "capture"
    /\ UNCHANGED <<now, prog, cam, hist, exit>>
    /\ UNCHANGED hist2

\* lines 57-58, without the continue
CooldownSleepNoContinue ==
    /\ pc = "cooldown_sleep"
    /\ now + Ticks(CooldownPollSeconds) <= MaxTime
    /\ now' = now + Ticks(CooldownPollSeconds)
    /\ pc' = "pace"
    /\ UNCHANGED <<prog, cam, hist, exit>>
    /\ iterOps' = Append(iterOps, "sleep_cooldown")
    /\ UNCHANGED <<lastPollAt, artifacts>>

\* lines 57-58
CooldownSleep ==
    /\ pc = "cooldown_sleep"
    /\ now + Ticks(CooldownPollSeconds) <= MaxTime
    /\ now' = now + Ticks(CooldownPollSeconds)
    /\ pc' = "loop"
    /\ UNCHANGED <<prog, cam, hist, exit>>
    /\ iterOps' = Append(iterOps, "sleep_cooldown")
    /\ UNCHANGED <<lastPollAt, artifacts>>

\* lines 61-67
Detect ==
    /\ pc = "capture"
    /\ \E raw \in RawDetections, keepEqual \in BOOLEAN, lat \in Latencies :
          /\ now + lat <= MaxTime
          /\ now' = now + lat
          /\ results' = Predict(raw, PredictConf, keepEqual)
    /\ pc' = "if_trigger"
    /\ UNCHANGED <<current_time, last_detection_time, triggered, time_to_next_detection,
                   cam, hist, exit>>
    /\ iterOps' = Append(iterOps, "capture")
    /\ lastPollAt' = now
    /\ UNCHANGED artifacts

\* line 69, taken
TriggerTrue ==
    /\ pc = "if_trigger"
    /\ Trigger(DetectedObjects(results))
    /\ triggered' = TRUE
    /\ pc' = "switch_video"
    /\ UNCHANGED <<now, current_time, last_detection_time, results,
                   time_to_next_detection, cam, hist, exit>>
    /\ UNCHANGED hist2

\* line 69, not taken, with line 99 outside the if
TriggerFalseSwitchesBack ==
    /\ pc = "if_trigger"
    /\ ~Trigger(DetectedObjects(results))
    /\ triggered' = FALSE
    /\ pc' = "switch_back"
    /\ UNCHANGED <<now, current_time, last_detection_time, results,
                   time_to_next_detection, cam, hist, exit>>
    /\ UNCHANGED hist2

\* line 69, not taken
TriggerFalse ==
    /\ pc = "if_trigger"
    /\ ~Trigger(DetectedObjects(results))
    /\ triggered' = FALSE
    /\ pc' = "pace"
    /\ UNCHANGED <<now, current_time, last_detection_time, results,
                   time_to_next_detection, cam, hist, exit>>
    /\ UNCHANGED hist2

\* line 73
SwitchToVideo ==
    /\ pc = "switch_video"
    /\ camConfig' = "video"
    /\ camStarted' = TRUE
    /\ iterSwitches' = iterSwitches + 1
    /\ results' = <<>>
    /\ pc' = "settle"
    /\ UNCHANGED <<now, current_time, last_detection_time, triggered,
                   time_to_next_detection, recording, exit,
                   lastStopReturnedAt, nStarted, iterStarts, lastAtIterStart,
                   paceP, paceSlept>>
    /\ iterOps' = Append(iterOps, "switch_video")
    /\ UNCHANGED <<lastPollAt, artifacts>>

\* line 76
Settle ==
    /\ pc = "settle"
    /\ now + SettleDelay <= MaxTime
    /\ now' = now + SettleDelay
    /\ pc' = "start_rec"
    /\ UNCHANGED <<prog, cam, hist, exit>>
    /\ iterOps' = Append(iterOps, "settle")
    /\ UNCHANGED <<lastPollAt, artifacts>>

\* lines 79-86
StartRecording ==
    /\ pc = "start_rec"
    /\ recording' = TRUE
    /\ nStarted' = nStarted + 1
    /\ iterStarts' = iterStarts + 1
    /\ pc' = "rec_sleep"
    /\ UNCHANGED <<now, prog, camConfig, camStarted, exit,
                   lastStopReturnedAt, iterSwitches, lastAtIterStart, paceP, paceSlept>>
    /\ iterOps' = Append(iterOps, "start_recording")
    /\ artifacts' = Append(artifacts, Timestamp(now))
    /\ UNCHANGED lastPollAt

\* line 89
RecordSleep ==
    /\ pc = "rec_sleep"
    /\ now + Ticks(VIDEO_DURATION_SECONDS) <= MaxTime
    /\ now' = now + Ticks(VIDEO_DURATION_SECONDS)
    /\ pc' = "stop_rec"
    /\ UNCHANGED <<prog, cam, hist, exit>>
    /\ iterOps' = Append(iterOps, "sleep_video")
    /\ UNCHANGED <<lastPollAt, artifacts>>

\* line 91, with the stop left out
StopRecordingSkipped ==
    /\ pc = "stop_rec"
    /\ lastStopReturnedAt' = now
    /\ pc' = "switch_back"
    /\ UNCHANGED <<now, prog, cam, exit,
                   nStarted, iterSwitches, iterStarts, lastAtIterStart, paceP, paceSlept>>
    /\ iterOps' = Append(iterOps, "stop_recording")
    /\ UNCHANGED <<lastPollAt, artifacts>>

\* line 91
StopRecording ==
    /\ pc = "stop_rec"
    /\ recording' = FALSE
    /\ lastStopReturnedAt' = now
    /\ pc' = "switch_back"
    /\ UNCHANGED <<now, prog, camConfig, camStarted, exit,
                   nStarted, iterSwitches, iterStarts, lastAtIterStart, paceP, paceSlept>>
    /\ iterOps' = Append(iterOps, "stop_recording")
    /\ UNCHANGED <<lastPollAt, artifacts>>

\* line 99, switching to the configuration already held
SwitchToDetectionStays ==
    /\ pc = "switch_back"
    /\ camStarted' = TRUE
    /\ iterSwitches' = iterSwitches + 1
    /\ pc' = "set_last"
    /\ UNCHANGED <<now, prog, camConfig, recording, exit,
                   lastStopReturnedAt, nStarted, iterStarts, lastAtIterStart,
                   paceP, paceSlept>>
    /\ iterOps' = Append(iterOps, "switch_detection")
    /\ UNCHANGED <<lastPollAt, artifacts>>

\* line 99
SwitchToDetection ==
    /\ pc = "switch_back"
    /\ camConfig' = "detection"
    /\ camStarted' = TRUE
    /\ iterSwitches' = iterSwitches + 1
    /\ pc' = "set_last"
    /\ UNCHANGED <<now, prog, recording, exit,
                   lastStopReturnedAt, nStarted, iterStarts, lastAtIterStart,
                   paceP, paceSlept>>
    /\ iterOps' = Append(iterOps, "switch_detection")
    /\ UNCHANGED <<lastPollAt, artifacts>>

\* line 102, storing the clock at the end of the recording
SetLastDetectionTimeAtEnd ==
    /\ pc = "set_last"
    /\ last_detection_time' = now
    /\ pc' = "pace"
    /\ UNCHANGED <<now, current_time, results, triggered, time_to_next_detection,
                   cam, hist, exit>>
    /\ UNCHANGED hist2

\* line 102
SetLastDetectionTime ==
    /\ pc = "set_last"
    /\ last_detection_time' = current_time
    /\ pc' = "pace"
    /\ UNCHANGED <<now, current_time, results, triggered, time_to_next_detection,
                   cam, hist, exit>>
    /\ UNCHANGED hist2

\* line 105
ComputePace ==
    /\ pc = "pace"
    /\ time_to_next_detection' = TimeToNextDetection(now, current_time)
    /\ paceP' = now - current_time
    /\ results' = <<>>
    /\ pc' = "pace_if"
    /\ UNCHANGED <<now, current_time, last_detection_time, triggered, cam, exit,
                   lastStopReturnedAt, nStarted, iterSwitches, iterStarts,
                   lastAtIterStart, paceSlept>>
    /\ UNCHANGED hist2

\* lines 106-107, taken
PaceSleep ==
    /\ pc = "pace_if"
    /\ time_to_next_detection > 0
    /\ now + time_to_next_detection <= MaxTime
    /\ now' = now + time_to_next_detection
    /\ paceSlept' = time_to_next_detection
    /\ pc' = "loop"
    /\ UNCHANGED <<prog, cam, exit, lastStopReturnedAt, nStarted, iterSwitches,
                   iterStarts, lastAtIterStart, paceP>>
    /\ iterOps' = Append(iterOps, "sleep_pace")
    /\ UNCHANGED <<lastPollAt, artifacts>>

\* line 106, not taken
PaceSkip ==
    /\ pc = "pace_if"
    /\ ~(time_to_next_detection > 0)
    /\ paceSlept' = 0
    /\ pc' = "loop"
    /\ UNCHANGED <<now, prog, cam, exit, lastStopReturnedAt, nStarted, iterSwitches,
                   iterStarts, lastAtIterStart, paceP>>
    /\ UNCHANGED hist2

(* ------------------------------ failures ------------------------------ *)

\* a call on the camera or the detector raises (not KeyboardInterrupt): no
\* except clause matches, control goes to the finally block of line 111.  What
\* the failed call did to the camera before raising is open.
AfterFailedCallSwallowed == "settle"
AfterFailedCallCaught == "except"
\* where an exception other than KeyboardInterrupt leads: lines 109-111
AfterFailedCall == "finally"

CallFails ==
    /\ \/ /\ pc = "capture"
          /\ failedOp' = "capture"
          /\ UNCHANGED cam
       \/ /\ pc = "switch_video"
          /\ failedOp' = "switch_video"
          /\ camConfig' \in {"detection", "video"}
          /\ camStarted' \in BOOLEAN
          /\ UNCHANGED recording
       \/ /\ pc = "start_rec"
          /\ failedOp' = "start_recording"
          /\ recording' \in BOOLEAN
          /\ UNCHANGED <<camConfig, camStarted>>
       \/ /\ pc = "stop_rec"
          /\ failedOp' = "stop_recording"
          /\ recording' \in BOOLEAN
          /\ UNCHANGED <<camConfig, camStarted>>
       \/ /\ pc = "switch_back"
          /\ failedOp' = "switch_detection"
          /\ camConfig' \in {"detection", "video"}
          /\ camStarted' \in BOOLEAN
          /\ UNCHANGED recording
    /\ exc' = "Error"
    /\ pc' = AfterFailedCall
    /\ UNCHANGED <<now, prog, hist, interruptedAt>>
    /\ UNCHANGED hist2

\* Ctrl+C while control is inside the try block
Interrupt ==
    /\ pc \in TryPcs
    /\ interruptedAt' = pc
    /\ exc' = "KeyboardInterrupt"
    /\ pc' = "except"
    /\ UNCHANGED <<now, prog, cam, hist, failedOp>>
    /\ UNCHANGED hist2

\* lines 109-110
ExceptKeyboardInterrupt ==
    /\ pc = "except"
    /\ exc' = "none"
    /\ pc' = "finally"
    /\ UNCHANGED <<now, prog, cam, hist, failedOp, interruptedAt>>
    /\ UNCHANGED hist2

\* lines 111-112, with the stop left out
FinallySkipped ==
    /\ pc = "finally"
    /\ pc' = "done"
    /\ UNCHANGED <<now, prog, cam, hist, exit>>
    /\ UNCHANGED hist2

\* lines 111-112
Finally ==
    /\ pc = "finally"
    /\ camStarted' = FALSE
    /\ pc' = "done"
    /\ UNCHANGED <<now, prog, camConfig, recording, hist, exit>>
    /\ UNCHANGED hist2

Next ==
    \/ LoopTop
    \/ GateClosed
    \/ GateOpen
    \/ CooldownSleep
    \/ Detect
    \/ TriggerTrue
    \/ TriggerFalse
    \/ SwitchToVideo
    \/ Settle
    \/ StartRecording
    \/ RecordSleep
    \/ StopRecording
    \/ SwitchToDetection
    \/ SetLastDetectionTime
    \/ ComputePace
    \/ PaceSleep
    \/ PaceSkip
    \/ CallFails
    \/ Interrupt
    \/ ExceptKeyboardInterrupt
    \/ Finally

Spec == Init /\ [][Next]_vars

TypeOK ==
    /\ pc \in TryPcs \cup {"except", "finally", "done"}
    /\ now \in 0..MaxTime
    /\ camConfig \in {"detection", "video"}
    /\ camStarted \in BOOLEAN
    /\ recording \in BOOLEAN
    /\ exc \in {"none", "KeyboardInterrupt", "Error"}

(* ------------------------------ unbounded runs ------------------------ *)

\* The loop reads the clock only through the differences of lines 56 and 105,
\* and line 56 only asks whether its difference is below COOLDOWN_SECONDS.
\* Moving the origin of the clock at the top of an iteration therefore leaves
\* every later step of the loop as it was; it keeps the clock of a run that
\* never ends inside 0..MaxTime.  The history older than the move is dropped.
RebaseAt == Ticks(COOLDOWN_SECONDS)

Shifted(t, by) == IF t < 0 THEN t ELSE IF t - by > 0 THEN t - by ELSE 0

Rebase ==
    /\ pc = "loop"
    /\ now > RebaseAt
    /\ LET by == now - RebaseAt
       IN  /\ now' = RebaseAt
           /\ current_time' = Shifted(current_time, by)
           /\ last_detection_time' = Shifted(last_detection_time, by)
           /\ lastAtIterStart' = Shifted(lastAtIterStart, by)
           /\ lastStopReturnedAt' = Shifted(lastStopReturnedAt, by)
           /\ lastPollAt' = Shifted(lastPollAt, by)
    /\ nStarted' = IF nStarted > 0 THEN 1 ELSE 0
    /\ artifacts' = <<>>
    /\ UNCHANGED <<pc, results, triggered, time_to_next_detection, cam, exit,
                   iterSwitches, iterStarts, paceP, paceSlept, iterOps>>

\* the steps of a run in which no call raises and no shutdown signal arrives;
\* an iteration that starts late first moves the origin of the clock
LiveNext ==
    \/ Rebase
    \/ (~ENABLED Rebase /\ LoopTop)
    \/ GateClosed
    \/ GateOpen
    \/ CooldownSleep
    \/ Detect
    \/ TriggerTrue
    \/ TriggerFalse
    \/ SwitchToVideo
    \/ Settle
    \/ StartRecording
    \/ RecordSleep
    \/ StopRecording
    \/ SwitchToDetection
    \/ SetLastDetectionTime
    \/ ComputePace
    \/ PaceSleep
    \/ PaceSkip

\* the interpreter always executes the next statement, and every sleep returns
LiveSpec == Init /\ [][LiveNext]_vars /\ WF_vars(LiveNext)

(* ------------------------------ properties ---------------------------- *)

Max0(x) == IF x > 0 THEN x ELSE 0

\* positions at which a detection poll or a new recording begins
BeginsPollOrRecording == pc \in {"capture", "switch_video", "start_rec"}

\* C1 (as claimed): no detection poll and no new recording begins less than
\* COOLDOWN_SECONDS after the stop_recording of an earlier recording returned.
C1_CooldownAfterStop ==
    (lastStopReturnedAt >= 0 /\ BeginsPollOrRecording)
        => now - lastStopReturnedAt >= Ticks(COOLDOWN_SECONDS)

\* positions from the trigger decision of line 69 to the switch back of line 99
FromTriggerToSwitchBack ==
    {"switch_video", "settle", "start_rec", "rec_sleep", "stop_rec", "switch_back"}
\* positions from the return of switch_mode(video_config) to the switch back
FromVideoToSwitchBack ==
    {"settle", "start_rec", "rec_sleep", "stop_rec", "switch_back"}

\* C2 (as claimed): inside the loop the camera holds the video configuration
\* iff control is between the trigger decision and the switch back.
C2_VideoIffFromTrigger ==
    pc \in TryPcs => (camConfig = "video" <=> pc \in FromTriggerToSwitchBack)

\* C2 (amended): inside the loop the camera holds the video configuration iff
\* control is between the return of switch_mode(video_config) and the switch
\* back to detection_config; at every other position of the loop, the cooldown
\* wait and the pacing sleep included, it holds the detection configuration.
C2_VideoIffSwitched ==
    pc \in TryPcs =>
        /\ camConfig = "video" <=> pc \in FromVideoToSwitchBack
        /\ camConfig = "detection" <=> pc \notin FromVideoToSwitchBack

C2_Witness ==
    /\ pc = "rec_sleep"
    /\ camConfig = "video"
    /\ recording

\* C3: start_recording is never called while a recording started earlier has
\* not been stopped.
C3_NoOverlap == pc = "start_rec" => ~recording

C3_Witness ==
    /\ pc = "start_rec"
    /\ nStarted >= 1
    /\ lastStopReturnedAt >= 0
    /\ ~recording

\* C4 (as claimed): when KeyboardInterrupt arrives during the sleep of line 89,
\* the recording is stopped and the camera released before main() exits.
C4_InterruptStopsRecording ==
    (pc = "done" /\ interruptedAt = "rec_sleep") => (~recording /\ ~camStarted)

\* C5: on every exit of main() after the camera was started, picam2.stop() has
\* been executed: the camera is stopped once main() is done.
C5_StoppedAtExit == pc = "done" => ~camStarted

C5_Witness ==
    /\ pc = "done"
    /\ failedOp = "switch_detection"
    /\ exc = "Error"
    /\ ~camStarted

\* C6 (as claimed): when start_recording or stop_recording raises, the cooldown
\* reference time is still updated for that trigger and the camera is returned
\* to the detection configuration.
C6_FailureStillCoolsDown ==
    (pc = "done" /\ failedOp \in {"start_recording", "stop_recording"}) =>
        /\ last_detection_time = current_time
        /\ camConfig = "detection"

\* a detection with a target label and a confidence at or above the threshold
Matches(d) == d.label \in TARGET_OBJECTS /\ d.conf >= CONFIDENCE_THRESHOLD

\* C7: the branch taken at line 69 is the recording branch iff at least one of
\* the detections returned for the frame has its label in TARGET_OBJECTS and
\* its confidence >= CONFIDENCE_THRESHOLD.
C7_TriggerIffMatch ==
    (pc = "switch_video" \/ (pc = "pace" /\ ~triggered)) =>
        (triggered <=> \E i \in 1..Len(results) : Matches(results[i]))

C7_Witness ==
    /\ pc = "switch_video"
    /\ triggered
    /\ Len(results) = 2
    /\ results[1].label \notin TARGET_OBJECTS
    /\ results[2].label \in TARGET_OBJECTS
    /\ results[2].conf = CONFIDENCE_THRESHOLD

\* C8: the pacing sleep at the end of an iteration lasts exactly
\* max(0, DETECTION_INTERVAL_SECONDS - p), p being the time elapsed since the
\* start of the iteration.
C8_PacingSleep ==
    (pc = "loop" /\ paceP >= 0) =>
        paceSlept = Max0(Ticks(DETECTION_INTERVAL_SECONDS) - paceP)

C8_Witness ==
    /\ pc = "loop"
    /\ paceP > 0
    /\ paceP < Ticks(DETECTION_INTERVAL_SECONDS)
    /\ paceSlept = Ticks(DETECTION_INTERVAL_SECONDS) - paceP

\* C9 (as claimed): the gate is closed iff now - last < COOLDOWN_SECONDS, and
\* it is open for every value of the clock as long as no recording occurred.
C9_GateOpenBeforeAnyRecording ==
    pc \in {"cooldown_sleep", "capture"} =>
        /\ pc = "cooldown_sleep"
             <=> current_time - last_detection_time < Ticks(COOLDOWN_SECONDS)
        /\ nStarted = 0 => pc = "capture"

\* C10: an iteration whose trigger is false switches no mode, starts no
\* recording and leaves the cooldown reference time unchanged, and when its
\* processing time was below the interval the next iteration starts at
\* pollStart + DETECTION_INTERVAL_SECONDS.
C10_NoTriggerNoEffect ==
    /\ (pc \in {"pace", "pace_if"} /\ ~triggered) =>
          /\ iterSwitches = 0
          /\ iterStarts = 0
          /\ last_detection_time = lastAtIterStart
          /\ camConfig = "detection"
          /\ ~recording
    /\ (pc = "loop" /\ paceP >= 0 /\ ~triggered) =>
          /\ iterSwitches = 0
          /\ iterStarts = 0
          /\ last_detection_time = lastAtIterStart
          /\ paceP < Ticks(DETECTION_INTERVAL_SECONDS)
                => now = current_time + Ticks(DETECTION_INTERVAL_SECONDS)

C10_Witness ==
    /\ pc = "loop"
    /\ paceP = LatencyShort
    /\ ~triggered
    /\ iterSwitches = 0
    /\ now = current_time + Ticks(DETECTION_INTERVAL_SECONDS)
    /\ nStarted >= 1

\* C11 (as claimed): after a recording cycle the cooldown reference time is
\* the clock at which the recording completed, not the clock at which the
\* triggering poll started.
C11_ReferenceIsCompletionTime ==
    (pc = "pace" /\ triggered) => last_detection_time = lastStopReturnedAt

\* C12: an iteration that finds the gate closed captures no frame, runs no
\* inference, switches no mode and skips the pacing sleep: it only sleeps one
\* second and goes back to the top of the loop.
C12_ClosedGateOnlySleeps ==
    /\ pc = "cooldown_sleep" =>
          /\ iterOps = <<>>
          /\ results = <<>>
          /\ ~triggered
          /\ camConfig = "detection"
    /\ (pc = "loop" /\ iterOps # <<>> /\ iterOps[1] = "sleep_cooldown") =>
          /\ iterOps = <<"sleep_cooldown">>
          /\ iterSwitches = 0
          /\ iterStarts = 0
          /\ ~triggered
          /\ paceP = -1
          /\ paceSlept = -1
          /\ now = current_time + Ticks(CooldownPollSeconds)
          /\ last_detection_time = lastAtIterStart

C12_Witness ==
    /\ pc = "loop"
    /\ iterOps = <<"sleep_cooldown">>
    /\ now = current_time + Ticks(CooldownPollSeconds)

\* the camera calls and waits of one recording cycle, in order
RecordingCycle ==
    <<"capture", "switch_video", "settle", "start_recording", "sleep_video",
      "stop_recording", "switch_detection">>

IsPrefix(a, b) == Len(a) <= Len(b) /\ \A i \in 1..Len(a) : a[i] = b[i]

\* the calls of an iteration without its pacing and cooldown sleeps
CameraOps(ops) == SelectSeq(ops, LAMBDA o : o \notin {"sleep_pace", "sleep_cooldown"})

C14_SwitchFailureAbandons ==
    /\ failedOp = "switch_video" =>
          /\ pc \in {"finally", "done"}
          /\ iterOps = <<"capture">>
          /\ iterStarts = 0
          /\ ~recording
          /\ Len(artifacts) = nStarted
          /\ last_detection_time = lastAtIterStart
    /\ pc \in FromVideoToSwitchBack => camConfig = "video"

C14_Witness ==
    /\ pc = "done"
    /\ failedOp = "switch_video"
    /\ camConfig = "detection"
    /\ ~recording

\* C15: when capture_array or predict raises, the failure is neither swallowed
\* nor retried: the loop is left, no poll, mode switch or recording follows,
\* and the exception leaves main().
C15_CaptureFailurePropagates ==
    failedOp = "capture" =>
        /\ pc \in {"finally", "done"}
        /\ exc = "Error"
        /\ iterOps = <<>>
        /\ iterSwitches = 0
        /\ iterStarts = 0
        /\ camConfig = "detection"
        /\ ~recording

C15_Witness ==
    /\ pc = "done"
    /\ failedOp = "capture"
    /\ exc = "Error"
    /\ nStarted >= 1

\* C16: without shutdown signal and without failure the loop never ends, and
\* every trigger is followed by stop_recording, by the camera back in the
\* detection configuration and by a later detection poll; detection polls
\* recur forever.
C16_LoopProgress ==
    /\ [](pc \in TryPcs)
    /\ []<>(pc = "capture")
    /\ (pc = "switch_video") ~> (pc = "switch_back" /\ ~recording)
    /\ (pc = "switch_back") ~> (pc = "set_last" /\ camConfig = "detection" /\ ~recording)
    /\ (pc = "set_last") ~> (pc = "capture")

C16_Witness ==
    /\ pc = "capture"
    /\ nStarted >= 1
    /\ lastStopReturnedAt >= 0
    /\ camConfig = "detection"
    /\ ~recording

\* C17: the start times of two consecutive detection polls are at least
\* DETECTION_INTERVAL_SECONDS apart.
C17_PollSpacing ==
    (pc = "capture" /\ lastPollAt >= 0) =>
        now - lastPollAt >= Ticks(DETECTION_INTERVAL_SECONDS)

C17_Witness ==
    /\ pc = "capture"
    /\ lastPollAt >= 0
    /\ now - lastPollAt = Ticks(DETECTION_INTERVAL_SECONDS)

LexLess(a, b) ==
    \E k \in 1..Len(a) :
        /\ k <= Len(b)
        /\ a[k] < b[k]
        /\ \A m \in 1..(k - 1) : a[m] = b[m]

====
